---- MODULE Spec2Model ----
(***************************************************************************)
(* Receipt normalisation and cost apportionment of the expense tracker.    *)
(*                                                                         *)
(* Money is counted in whole cents.  A JavaScript value of a numeric field *)
(* is a tuple: <<>> is undefined, <<"e">> the empty string, <<"s", c>> a    *)
(* string that parseFloat reads as c, <<"n", c>> the number c.  For price,  *)
(* unit_price, subtotal, tax and total c is in cents; for quantity c is in *)
(* units of 1 / QtyScale; for the percentage rate c is a whole percentage. *)
(*                                                                         *)
(* Number.prototype.toFixed(2) rounds the binary double to the nearest     *)
(* cent.  At an exact decimal half cent the double lies on either side, so *)
(* ToFixed2 is the SET of cents the call can produce: one element off a    *)
(* tie, both neighbours at a tie.                                          *)
(***************************************************************************)
EXTENDS Integers, Sequences, FiniteSets, TLC

\* ------------------------------------------------------------- bounds
\* how many names of the roster take part in the model
NumHousemates == 2
\* longest item list explored
MaxItems == 2

\* the longest string typed into a money field
MaxLen == 4

\* how many times the Save button is pressed
MaxSaves == 2

\* how many receipts are ever added to the history
MaxReceipts == 4

\* the longest list of stored cards, and the last reading of the clock
MaxCards == 3
MaxClock == 2

\* ------------------------------------------------------------- roster
HOUSEMATES == <<"Timothy", "Rachel", "Bryan", "Pigskin", "Angel", "Ivan", "Esther", "Ken9">>

Min(a, b) == IF a < b THEN a ELSE b

Roster == SubSeq(HOUSEMATES, 1, Min(NumHousemates, Len(HOUSEMATES)))

HM == {Roster[i] : i \in 1..Len(Roster)}

\* ------------------------------------------------------------- values
Undefined == <<>>

EmptyStr == <<"e">>

Str(c) == <<"s", c>>

Num(c) == <<"n", c>>

IsNumeric(v) == Len(v) = 2

\* parseFloat(String(v)) || dflt : NaN and 0 are both falsy
ParseOr(v, dflt) == IF IsNumeric(v) /\ v[2] # 0 THEN v[2] ELSE dflt

\* JavaScript truthiness of a field: undefined, "" and the number 0 are falsy,
\* every non-empty string (also "0.00") is truthy
Truthy(v) == IsNumeric(v) /\ (v[1] = "s" \/ v[2] # 0)

Abs(x) == IF x < 0 THEN -x ELSE x

\* quantities are counted in 1/QtyScale, so that half units can be typed
QtyScale == 2

\* parseFloat(String(quantity)) || 1, in 1/QtyScale
QtyOf(v) == ParseOr(v, QtyScale)

\* cutting the digits after the second decimal instead of rounding them
Truncate2(n, d) == {(IF d < 0 THEN -n ELSE n) \div Abs(d)}

\* (n / d).toFixed(2) in cents, d # 0: the nearest integers to n / d
ToFixed2(n, d) ==
    LET nn == IF d < 0 THEN -n ELSE n
        dd == Abs(d)
    IN  {k \in {nn \div dd, (nn \div dd) + 1} : 2 * Abs(k * dd - nn) <= dd}

RECURSIVE SumSeq(_)
SumSeq(s) == IF s = <<>> THEN 0 ELSE Head(s) + SumSeq(Tail(s))

\* ------------------------------------------------------------- state
VARIABLES
    component,          \* which editor component holds the receipt
    editedData,         \* useState<ReceiptData>
    selectedTaxOption,  \* EditableReceiptTable: the <select> value
    customTaxRate,      \* EditableReceiptTable: percentage string
    customTaxAmount,    \* direct tax amount string
    useDirect,          \* EditableReceiptTable: "enter tax amount directly"
    selectedTaxRate,    \* ReceiptList: -1 custom rate, -2 custom amount, else the preset
    enteredRate,        \* the rate the user entered last, in 1/RateScale
    view,               \* what the last rendering or parsing of the receipt computed
    lastOp,             \* the handler that ran last, with its arguments
    ocrResult,          \* Home: useState<ReceiptData | null>
    receiptFile,        \* Home: useState<File | null>
    isEditing,          \* Home (index.tsx): useState(false)
    uploadingToDrive,   \* Home: useState(false)
    savingToSheets,     \* Home: useState(false)
    driveFileId,        \* Home: useState<string | null>
    errors,             \* EditableReceiptTable: the fields validateForm marked
    pc,                 \* where the running saveReceipt stands
    fetches,            \* the requests saveReceipt has sent
    storage,            \* localStorage['receipt-history']
    history,            \* the history view: useState<ReceiptData[]>
    retries,            \* processReceiptImage: the parameter of the running call
    requests,           \* processReceiptImage: requests sent to the API
    result,             \* processReceiptImage: what the outermost call resolved to
    cards,              \* localStorage['receipt-scanner:credit-cards']
    clock,              \* Date.now()
    returned            \* what the last credit card operation returned

vars == <<component, editedData, selectedTaxOption, customTaxRate, customTaxAmount, useDirect,
          selectedTaxRate, enteredRate, view, lastOp,
          ocrResult, receiptFile, isEditing, uploadingToDrive, savingToSheets, driveFileId,
          errors, pc, fetches, storage, history, retries, requests, result, cards, clock,
          returned>>

homeVars == <<ocrResult, receiptFile, isEditing, uploadingToDrive, savingToSheets, driveFileId,
              errors, pc, fetches>>

historyVars == <<storage, history>>

retryVars == <<retries, requests, result>>

cardVars == <<cards, clock, returned>>

appVars == <<homeVars, historyVars, retryVars, cardVars>>

Null == <<>>

\* the state of the application before anything was uploaded, stored or sent
AppIdle ==
    /\ ocrResult = Null
    /\ receiptFile = Null
    /\ isEditing = FALSE
    /\ uploadingToDrive = FALSE
    /\ savingToSheets = FALSE
    /\ driveFileId = Null
    /\ errors = {}
    /\ pc = "idle"
    /\ fetches = <<>>
    /\ storage = <<>>
    /\ history = <<>>
    /\ retries = 0
    /\ requests = 0
    /\ result = Null
    /\ cards = <<>>
    /\ clock = 0
    /\ returned = Null

AllInvolved == [h \in HM |-> 1]

InvolvementMaps == [HM -> {0, 1}]

\* ------------------------------------------------------------- inputs
\* what the user types into a quantity, unit price or price field
QtyInputs == {EmptyStr, Str(0), Str(1), Str(7 * QtyScale), Str(-7 * QtyScale)}

UnitPriceInputs == {EmptyStr, Str(25)}

PriceInputs == {EmptyStr, Str(200)}

\* the receipts handed to the editor: the first k items of a sample receipt.
\* Odd items carry quantity and unit price, even items only a price.
SampleItem(i) ==
    IF i % 2 = 1
    THEN [price |-> Str(300), unit_price |-> Str(150), quantity |-> Str(2 * QtyScale),
          taxable |-> <<>>, involvedHousemates |-> <<>>]
    ELSE [price |-> Num(100), unit_price |-> Undefined, quantity |-> Undefined,
          taxable |-> <<FALSE>>, involvedHousemates |-> <<>>]

SampleData(k) ==
    [items |-> [i \in 1..k |-> SampleItem(i)],
     subtotal |-> Undefined, tax |-> Undefined, total |-> Undefined,
     involvedHousemates |-> <<>>]

\* ------------------------------------------------- EditableReceiptTable
\* initialData: every item gets taxable and an involvement map of its own
initialData(data) ==
    [data EXCEPT
        !.items = [i \in 1..Len(data.items) |->
            [data.items[i] EXCEPT
                !.taxable = IF data.items[i].taxable # <<>> THEN data.items[i].taxable ELSE <<TRUE>>,
                !.involvedHousemates =
                    IF data.items[i].involvedHousemates # <<>>
                    THEN data.items[i].involvedHousemates
                    ELSE <<AllInvolved>>]],
        !.involvedHousemates =
            IF data.involvedHousemates # <<>> THEN data.involvedHousemates ELSE <<AllInvolved>>]

ItemPrices(items) == [i \in 1..Len(items) |-> ParseOr(items[i].price, 0)]

\* updateTotals, run by the effects on [items, customTaxRate, customTaxAmount,
\* useDirect]: the receipts it can store (two at a rounding tie)
\* the totals when a rate of 13 is taken for 0.13 without the division
updateTotalsUndivided(ed, rate, amount, direct) ==
    LET subtotal == SumSeq(ItemPrices(ed.items))
        tax == IF direct THEN ParseOr(amount, 0) ELSE subtotal * ParseOr(rate, 0)
    IN  {[ed EXCEPT !.subtotal = Str(subtotal), !.tax = Str(tax), !.total = Str(subtotal + tax)]}

updateTotals(ed, rate, amount, direct) ==
    LET subtotal == SumSeq(ItemPrices(ed.items))
        tax100 == IF direct THEN 100 * ParseOr(amount, 0) ELSE subtotal * ParseOr(rate, 0)
    IN  {[ed EXCEPT !.subtotal = Str(subtotal), !.tax = Str(t), !.total = Str(tt)] :
            t \in ToFixed2(tax100, 100), tt \in ToFixed2(100 * subtotal + tax100, 100)}

\* the effect on [editedData.involvedHousemates]: items without a map of their
\* own take a copy of the receipt-level map
involvementEffect(ed) ==
    IF ed.involvedHousemates = <<>> THEN ed
    ELSE [ed EXCEPT !.items = [i \in 1..Len(ed.items) |->
            [ed.items[i] EXCEPT !.involvedHousemates =
                IF ed.items[i].involvedHousemates # <<>>
                THEN ed.items[i].involvedHousemates
                ELSE ed.involvedHousemates]]]

\* a quantity edit that scales the price the item already has
handleItemChangeCompounding(items, index, field, value) ==
    LET item == [items[index] EXCEPT ![field] = value]
        news == IF field = "quantity"
                THEN {[item EXCEPT !.price = Str(p)] :
                        p \in ToFixed2(ParseOr(item.price, 0) * QtyOf(value), QtyScale)}
                ELSE {item}
    IN  {[items EXCEPT ![index] = n] : n \in news}

\* handleItemChange: the item lists it can produce
handleItemChangeItems(items, index, field, value) ==
    LET item == [items[index] EXCEPT ![field] = value]
        qty == IF field = "quantity" THEN QtyOf(value) ELSE QtyOf(item.quantity)
        news ==
            IF field = "unit_price"
            THEN {[item EXCEPT !.price = Str(p)] : p \in ToFixed2(ParseOr(value, 0) * qty, QtyScale)}
            ELSE IF field = "price" /\ Truthy(item.unit_price)
            THEN {[item EXCEPT !.unit_price = Str(u)] :
                    u \in ToFixed2(ParseOr(value, 0) * QtyScale, qty)}
            ELSE IF field = "quantity" /\ Truthy(item.unit_price)
            THEN {[item EXCEPT !.price = Str(p)] :
                    p \in ToFixed2(ParseOr(item.unit_price, 0) * qty, QtyScale)}
            ELSE {item}
    IN  {[items EXCEPT ![index] = n] : n \in news}

\* the item handleAddItem appends
TableNewItem(ed) ==
    [description |-> EmptyStr, price |-> Str(0), unit_price |-> Str(0), quantity |-> Str(QtyScale),
     taxable |-> <<TRUE>>, involvedHousemates |-> ed.involvedHousemates]

\* newItems.splice(index, 1)
Splice(items, index) == [i \in 1..(Len(items) - 1) |-> IF i < index THEN items[i] ELSE items[i + 1]]

\* involvedHousemates?.[housemate] || 0, then flipped
Flip(map, housemate) == IF map # <<>> /\ map[1][housemate] = 1 THEN 0 ELSE 1

\* {...(map || {}), [housemate]: v}
SetInvolved(map, housemate, v) ==
    IF map = <<>> THEN <<[h \in HM |-> IF h = housemate THEN v ELSE 0]>>
    ELSE <<[map[1] EXCEPT ![housemate] = v]>>

\* the participants the receipt-level map marks 1
ReceiptInvolved(ed) ==
    IF ed.involvedHousemates = <<>> THEN {} ELSE {h \in HM : ed.involvedHousemates[1][h] = 1}

\* Object.values(involvedHousemates).filter((v) => v === 1).length || 1
involvedCountAll(ed) == Len(Roster)

involvedCount(ed) ==
    IF Cardinality(ReceiptInvolved(ed)) = 0 THEN 1 ELSE Cardinality(ReceiptInvolved(ed))

\* calculateHousemateTotals: each share as the fraction <<n, d>> of cents
calculateHousemateTotals(ed) ==
    [h \in HM |->
        IF h \in ReceiptInvolved(ed)
        THEN <<ParseOr(ed.total, 0), involvedCount(ed)>>
        ELSE <<0, 1>>]

\* ---------------------------------------------------- clipboardUtils.ts
\* the map an item is exported with: its own, else the receipt's, else {}
ExportMap(receiptData, item) ==
    IF item.involvedHousemates # <<>> THEN item.involvedHousemates[1]
    ELSE IF receiptData.involvedHousemates # <<>> THEN receiptData.involvedHousemates[1]
    ELSE [h \in HM |-> 0]

InvolvedIn(map) == {h \in HM : map[h] = 1}

hasMultipleRatios(receiptData) ==
    /\ \E i \in 1..Len(receiptData.items) : receiptData.items[i].involvedHousemates # <<>>
    /\ Cardinality({ExportMap(receiptData, receiptData.items[i]) : i \in 1..Len(receiptData.items)}) > 1

\* perPersonAmount: amount / count, or the "#DIV/0!" marker
PerPerson(amount, count) == IF count > 0 THEN <<amount, count>> ELSE <<"#DIV/0!">>

ClipboardTotalAmount(receiptData) ==
    IF Truthy(receiptData.total) THEN receiptData.total[2]
    ELSE SumSeq(ItemPrices(receiptData.items)) +
         (IF Truthy(receiptData.tax) THEN receiptData.tax[2] ELSE 0)

ClipboardItemRow(receiptData, item) ==
    LET involved == InvolvedIn(ExportMap(receiptData, item))
    IN  [amount |-> ParseOr(item.price, 0),
         perPerson |-> PerPerson(ParseOr(item.price, 0), Cardinality(involved)),
         involved |-> involved]

PositivePrice(item) == ParseOr(item.price, 0) > 0

\* copyReceiptDataToClipboard: the rows written, as amount, per-person amount
\* and the participants marked "1" (the editor's receipts carry no sharedWith)
copyReceiptDataToClipboard(receiptData) ==
    IF ~hasMultipleRatios(receiptData)
    THEN LET involved == IF receiptData.involvedHousemates # <<>>
                         THEN InvolvedIn(receiptData.involvedHousemates[1])
                         ELSE HM
         IN  <<[amount |-> ClipboardTotalAmount(receiptData),
                perPerson |-> PerPerson(ClipboardTotalAmount(receiptData), Cardinality(involved)),
                involved |-> involved]>>
    ELSE LET kept == SelectSeq(receiptData.items, PositivePrice)
         IN  [i \in 1..Len(kept) |-> ClipboardItemRow(receiptData, kept[i])]

\* ----------------------------------------------------- sheetsService.ts
\* formatCurrency: a number as it is, a string through parseFloat(...) || 0
formatCurrency(amount) == IF IsNumeric(amount) THEN amount[2] ELSE 0

\* writeReceiptToSheet: one row per item; sharedWith is <<>> when absent,
\* else <<the set of names>>
SheetSharedCount(sharedWith) ==
    IF sharedWith = <<>> \/ Cardinality(sharedWith[1]) = 0 THEN Len(Roster)
    ELSE Cardinality(sharedWith[1])

writeReceiptToSheet(data, sharedWith) ==
    [i \in 1..Len(data.items) |->
        LET amount == formatCurrency(data.items[i].price)
            sharedCount == SheetSharedCount(sharedWith)
        IN  [amount |-> amount,
             perPerson |-> <<amount, sharedCount>>,
             shares |-> [h \in HM |->
                 IF sharedWith = <<>> \/ h \in sharedWith[1]
                 THEN <<amount, sharedCount>> ELSE <<0, 1>>]]]

\* ------------------------------------------------------------- actions
Op(name, index, field, before) == [op |-> name, index |-> index, field |-> field, before |-> before]

NoItem == [price |-> Undefined, unit_price |-> Undefined, quantity |-> Undefined,
           taxable |-> <<>>, involvedHousemates |-> <<>>]

TaxUnchanged ==
    UNCHANGED <<selectedTaxOption, customTaxRate, customTaxAmount, useDirect, selectedTaxRate,
                enteredRate, view, appVars>>

\* every handler below is followed by the effects it triggers
handleItemChange(index, field, value) ==
    /\ component = "table"
    /\ index \in 1..Len(editedData.items)
    /\ \E newItems \in handleItemChangeItems(editedData.items, index, field, value) :
        editedData' \in updateTotals([editedData EXCEPT !.items = newItems],
                                     customTaxRate, customTaxAmount, useDirect)
    /\ lastOp' = Op("handleItemChange", index, field, editedData.items[index])
    /\ UNCHANGED component
    /\ TaxUnchanged

toggleReceiptHousemateInvolvement(housemate) ==
    /\ component = "table"
    /\ editedData' = involvementEffect([editedData EXCEPT !.involvedHousemates =
            SetInvolved(editedData.involvedHousemates, housemate,
                        Flip(editedData.involvedHousemates, housemate))])
    /\ lastOp' = Op("toggleReceiptHousemateInvolvement", 0, housemate, NoItem)
    /\ UNCHANGED component
    /\ TaxUnchanged

toggleItemHousemateInvolvement(itemIndex, housemate) ==
    /\ component = "table"
    /\ itemIndex \in 1..Len(editedData.items)
    /\ editedData' = [editedData EXCEPT !.items[itemIndex].involvedHousemates =
            SetInvolved(@, housemate, Flip(@, housemate))]
    /\ lastOp' = Op("toggleItemHousemateInvolvement", itemIndex, housemate, NoItem)
    /\ UNCHANGED component
    /\ TaxUnchanged

toggleAllHousemates(value) ==
    /\ component = "table"
    /\ editedData' = involvementEffect([editedData EXCEPT !.involvedHousemates = <<[h \in HM |-> value]>>])
    /\ lastOp' = Op("toggleAllHousemates", value, "", NoItem)
    /\ UNCHANGED component
    /\ TaxUnchanged

applyReceiptSharingToAll ==
    /\ component = "table"
    /\ editedData.involvedHousemates # <<>>
    /\ editedData' = [editedData EXCEPT !.items = [i \in 1..Len(editedData.items) |->
            [editedData.items[i] EXCEPT !.involvedHousemates = editedData.involvedHousemates]]]
    /\ lastOp' = Op("applyReceiptSharingToAll", 0, "", NoItem)
    /\ UNCHANGED component
    /\ TaxUnchanged

handleAddItem ==
    /\ component = "table"
    /\ Len(editedData.items) < MaxItems
    /\ editedData' \in updateTotals(
            [editedData EXCEPT !.items = Append(editedData.items, TableNewItem(editedData))],
            customTaxRate, customTaxAmount, useDirect)
    /\ lastOp' = Op("handleAddItem", Len(editedData.items) + 1, "", NoItem)
    /\ UNCHANGED component
    /\ TaxUnchanged

handleRemoveItem(index) ==
    /\ component = "table"
    /\ index \in 1..Len(editedData.items)
    /\ editedData' \in updateTotals([editedData EXCEPT !.items = Splice(editedData.items, index)],
                                    customTaxRate, customTaxAmount, useDirect)
    /\ lastOp' = Op("handleRemoveItem", index, "", NoItem)
    /\ UNCHANGED component
    /\ TaxUnchanged

\* ---------------------------------------------------------- ReceiptList
\* rates of the list are fractions; they are counted in 1/RateScale
RateScale == 100000

NaNStr == <<"NaN">>

\* the rows the user edits
EditedRows == {1}

\* parseFloat of a price as the list reads it; an empty string gives NaN
ListPriceOf(item) == IF IsNumeric(item.price) THEN item.price[2] ELSE 0

ListPriceIsNaN(item) == item.price = EmptyStr \/ item.price = NaNStr

\* calculateSubtotal, for items whose prices all parse
calculateSubtotal(items) == SumSeq([i \in 1..Len(items) |-> ListPriceOf(items[i])])

\* calculateTaxableSubtotal: items with taxable !== false
calculateTaxableSubtotal(items) ==
    SumSeq([i \in 1..Len(items) |-> IF items[i].taxable # <<FALSE>> THEN ListPriceOf(items[i]) ELSE 0])

\* the rate calculateTax applies, in 1/RateScale
ListTaxRate(selected, custom) ==
    IF selected = -1 THEN custom ELSE IF selected >= 0 THEN selected ELSE 13000

\* calculateTax in 1/RateScale of a cent, <<>> for NaN
calculateTax(items, selected, custom, amount) ==
    IF selected = -2 THEN <<ParseOr(amount, 0) * RateScale>>
    ELSE IF \E i \in 1..Len(items) : items[i].taxable # <<FALSE>> /\ ListPriceIsNaN(items[i])
    THEN <<>>
    ELSE <<calculateTaxableSubtotal(items) * ListTaxRate(selected, custom)>>

\* ReceiptList.updateTotals: it reads the items of the render it was created
\* in, not its argument; the totals it stores, as <<subtotal, tax, total>>
ListTotals(items, selected, custom, amount) ==
    LET subNaN == \E i \in 1..Len(items) : ListPriceIsNaN(items[i])
        subtotal == calculateSubtotal(items)
        tax == calculateTax(items, selected, custom, amount)
        subStr == IF subNaN THEN NaNStr ELSE Str(subtotal)
        taxStrs == IF tax = <<>> THEN {NaNStr} ELSE {Str(t) : t \in ToFixed2(tax[1], RateScale)}
        totStrs == IF subNaN \/ tax = <<>> THEN {NaNStr}
                   ELSE {Str(tt) : tt \in ToFixed2(subtotal * RateScale + tax[1], RateScale)}
    IN  {<<subStr, t, tt>> : t \in taxStrs, tt \in totStrs}

\* the items updateTotals reads: those of the current render
StaleItems == editedData.items

ListSetItems(newItems) ==
    \E tot \in ListTotals(StaleItems, selectedTaxRate, customTaxRate[2], customTaxAmount) :
        editedData' = [editedData EXCEPT !.items = newItems,
                                         !.subtotal = tot[1], !.tax = tot[2], !.total = tot[3]]

\* value.replace(/[^0-9.]/g, '') on a typed number: the sign is dropped
sanitizeNumeric(value) == IF IsNumeric(value) THEN <<value[1], Abs(value[2])>> ELSE value

\* a price edit that keeps the unit price in whole currency units
handleNumericInputWholeUnits(items, index, field, sanitizedValue) ==
    LET item == [items[index] EXCEPT ![field] = sanitizedValue]
        news == IF field = "price"
                THEN {[item EXCEPT !.unit_price = Str(100 * u)] :
                        u \in ToFixed2(ParseOr(sanitizedValue, 0) * QtyScale,
                                       100 * QtyOf(item.quantity))}
                ELSE {[item EXCEPT !.price = Str(p)] :
                        p \in ToFixed2(QtyOf(item.quantity) * ParseOr(item.unit_price, 0), QtyScale)}
    IN  {[items EXCEPT ![index] = n] : n \in news}

\* handleNumericInput after the value was sanitized: the item lists
handleNumericInputItems(items, index, field, sanitizedValue) ==
    LET item == [items[index] EXCEPT ![field] = sanitizedValue]
        news ==
            IF field = "unit_price"
            THEN {[item EXCEPT !.price = Str(p)] :
                    p \in ToFixed2(QtyOf(item.quantity) * ParseOr(sanitizedValue, 0), QtyScale)}
            ELSE IF field = "quantity"
            THEN {[item EXCEPT !.price = Str(p)] :
                    p \in ToFixed2(QtyOf(sanitizedValue) * ParseOr(item.unit_price, 0), QtyScale)}
            ELSE {[item EXCEPT !.unit_price = Str(u)] :
                    u \in ToFixed2(ParseOr(sanitizedValue, 0) * QtyScale, QtyOf(item.quantity))}
    IN  {[items EXCEPT ![index] = n] : n \in news}

handleNumericInput(index, field, value) ==
    /\ component = "list"
    /\ index \in 1..Len(editedData.items)
    /\ \E newItems \in handleNumericInputItems(editedData.items, index, field, sanitizeNumeric(value)) :
        ListSetItems(newItems)
    /\ lastOp' = Op("handleNumericInput", index, field, editedData.items[index])
    /\ UNCHANGED component
    /\ TaxUnchanged

ListNewItem ==
    [price |-> Str(0), unit_price |-> Str(0), quantity |-> Str(QtyScale),
     taxable |-> <<TRUE>>, involvedHousemates |-> <<>>]

ReceiptList_handleAddItem ==
    /\ component = "list"
    /\ Len(editedData.items) < MaxItems
    /\ ListSetItems(Append(editedData.items, ListNewItem))
    /\ lastOp' = Op("handleAddItem", Len(editedData.items) + 1, "", NoItem)
    /\ UNCHANGED component
    /\ TaxUnchanged

ReceiptList_handleRemoveItem(index) ==
    /\ component = "list"
    /\ index \in 1..Len(editedData.items)
    /\ ListSetItems(Splice(editedData.items, index))
    /\ lastOp' = Op("handleRemoveItem", index, "", editedData.items[index])
    /\ UNCHANGED component
    /\ TaxUnchanged

handleItemTaxableToggle(index) ==
    /\ component = "list"
    /\ index \in 1..Len(editedData.items)
    /\ ListSetItems([editedData.items EXCEPT ![index].taxable =
            IF @ = <<TRUE>> THEN <<FALSE>> ELSE <<TRUE>>])
    /\ lastOp' = Op("handleItemTaxableToggle", index, "", editedData.items[index])
    /\ UNCHANGED component
    /\ TaxUnchanged

\* the list as mounted on a receipt of k items whose totals the OCR step
\* supplied: subtotal = sum of prices, tax = 13%, total = subtotal + tax
ListMounted(k) ==
    LET items == [i \in 1..k |->
            [SampleItem(i) EXCEPT !.taxable = IF @ # <<>> THEN @ ELSE <<TRUE>>]]
        sub == calculateSubtotal(items)
    IN  {[SampleData(k) EXCEPT !.items = items, !.subtotal = Num(sub), !.tax = Num(t),
                                !.total = Num(sub + t)] : t \in ToFixed2(13 * sub, 100)}

InitList ==
    /\ component = "list"
    /\ \E k \in 0..MaxItems : editedData \in ListMounted(k)
    /\ selectedTaxOption = "13%"
    /\ customTaxRate = Num(13000)
    /\ customTaxAmount = Str(0)
    /\ useDirect = FALSE
    /\ selectedTaxRate = -1
    /\ enteredRate = 13000
    /\ view = <<>>
    /\ lastOp = Op("mount", 0, "", NoItem)
    /\ AppIdle

\* ------------------------------------------------- tax configuration
\* one percent in 1/RateScale
PercentUnit == RateScale \div 100

\* the <select> of EditableReceiptTable
TaxOptions == {"13%", "5%", "12%", "15%", "0%", "custom"}

\* value.replace("%", "") read as a percentage
OptionPercent(value) ==
    CASE value = "13%" -> 13 [] value = "5%" -> 5 [] value = "12%" -> 12
      [] value = "15%" -> 15 [] OTHER -> 0

\* the options, rates and amounts the user enters; a field takes input while
\* it is shown
SelectedOptions == {"13%", "5%", "0%", "custom"}

CustomRateInputs == {EmptyStr, Str(7)}

TaxAmountInputs == {EmptyStr, Str(150)}

\* useEffect on [editedData.items, customTaxRate, customTaxAmount, useDirect]:
\* updateTotals runs when one of the tax settings changed
TaxSettingsEffect(rate, amount, direct) ==
    IF <<rate, amount, direct>> = <<customTaxRate, customTaxAmount, useDirect>>
    THEN editedData' = editedData
    ELSE editedData' \in updateTotals(editedData, rate, amount, direct)

handleTaxOptionChange(value) ==
    /\ component = "table"
    /\ ~useDirect
    /\ value \in TaxOptions
    /\ selectedTaxOption' = value
    /\ customTaxRate' = IF value = "custom" THEN customTaxRate ELSE Str(OptionPercent(value))
    /\ enteredRate' = IF value = "custom" THEN enteredRate ELSE OptionPercent(value) * PercentUnit
    /\ TaxSettingsEffect(customTaxRate', customTaxAmount, useDirect)
    /\ lastOp' = Op("handleTaxOptionChange", 0, value, NoItem)
    /\ UNCHANGED <<appVars, view, component, customTaxAmount, useDirect, selectedTaxRate>>

handleCustomTaxRateChange(value) ==
    /\ component = "table"
    /\ ~useDirect
    /\ selectedTaxOption = "custom"
    /\ customTaxRate' = value
    /\ selectedTaxOption' = "custom"
    /\ enteredRate' = ParseOr(value, 0) * PercentUnit
    /\ TaxSettingsEffect(value, customTaxAmount, useDirect)
    /\ lastOp' = Op("handleCustomTaxRateChange", 0, "", NoItem)
    /\ UNCHANGED <<appVars, view, component, customTaxAmount, useDirect, selectedTaxRate>>

handleCustomTaxAmountChange(value) ==
    /\ component = "table"
    /\ useDirect
    /\ customTaxAmount' = value
    /\ TaxSettingsEffect(customTaxRate, value, useDirect)
    /\ lastOp' = Op("handleCustomTaxAmountChange", 0, "", NoItem)
    /\ UNCHANGED <<appVars, view, component, selectedTaxOption, customTaxRate, useDirect, selectedTaxRate,
                   enteredRate>>

handleUseDirect(checked) ==
    /\ component = "table"
    /\ useDirect' = checked
    /\ TaxSettingsEffect(customTaxRate, customTaxAmount, checked)
    /\ lastOp' = Op("handleUseDirect", 0, "", NoItem)
    /\ UNCHANGED <<appVars, view, component, selectedTaxOption, customTaxRate, customTaxAmount, selectedTaxRate,
                   enteredRate>>

\* the <select> of ReceiptList: taxRates, in 1/RateScale; -1 and -2 are the
\* custom rate and the custom amount
taxRates == {13000, 14975, 12000, 5000, 15000, 11000, 0, -1, -2}

SelectedTaxRates == {14975, 0, -1, -2}

\* the tax and the total the tax handlers of the list store
ListSetTax(selected, custom, amount) ==
    \E tot \in ListTotals(editedData.items, selected, custom, amount) :
        editedData' = [editedData EXCEPT !.tax = tot[2], !.total = tot[3]]

handleTaxRateChange(value) ==
    /\ component = "list"
    /\ value \in taxRates
    /\ selectedTaxRate' = value
    /\ IF value # -1 /\ value # -2
       THEN ListSetTax(value, customTaxRate[2], customTaxAmount)
       ELSE editedData' = editedData
    /\ enteredRate' = IF value >= 0 THEN value ELSE enteredRate
    /\ lastOp' = Op("handleTaxRateChange", 0, "", NoItem)
    /\ UNCHANGED <<appVars, view, component, selectedTaxOption, customTaxRate, customTaxAmount, useDirect>>

ReceiptList_handleCustomTaxRateChange(value) ==
    /\ component = "list"
    /\ selectedTaxRate = -1
    /\ LET rate == ParseOr(sanitizeNumeric(value), 0) * PercentUnit
       IN  /\ customTaxRate' = Num(rate)
           /\ enteredRate' = rate
           /\ ListSetTax(-1, rate, customTaxAmount)
    /\ lastOp' = Op("handleCustomTaxRateChange", 0, "", NoItem)
    /\ UNCHANGED <<appVars, view, component, selectedTaxOption, customTaxAmount, useDirect, selectedTaxRate>>

ReceiptList_handleCustomTaxAmountChange(value) ==
    /\ component = "list"
    /\ selectedTaxRate = -2
    /\ customTaxAmount' = sanitizeNumeric(value)
    /\ ListSetTax(-2, customTaxRate[2], sanitizeNumeric(value))
    /\ lastOp' = Op("handleCustomTaxAmountChange", 0, "", NoItem)
    /\ UNCHANGED <<appVars, view, component, selectedTaxOption, customTaxRate, useDirect, selectedTaxRate,
                   enteredRate>>

\* ------------------------------------------------------- OCR response
\* a number that is NaN
NaNNum == <<"nan">>

IsString(v) == v = EmptyStr \/ (IsNumeric(v) /\ v[1] = "s")

\* typeof v === 'number' (NaN is a number)
IsNumber(v) == v = NaNNum \/ (IsNumeric(v) /\ v[1] = "n")

\* parseFloat(v.replace(/[^\d.-]/g, '')) of a string
ParseString(v) == IF IsNumeric(v) THEN Num(v[2]) ELSE NaNNum

\* the items a model's answer can list
OcrItems ==
    {[price |-> Num(100), unit_price |-> Undefined, quantity |-> Undefined, taxable |-> <<>>],
     [price |-> Str(3), unit_price |-> Undefined, quantity |-> Str(2 * QtyScale), taxable |-> <<>>],
     [price |-> Undefined, unit_price |-> Num(150), quantity |-> Num(3), taxable |-> <<>>],
     [price |-> Num(500), unit_price |-> Undefined, quantity |-> Num(-2 * QtyScale), taxable |-> <<>>]}

RECURSIVE SeqsUpTo(_, _)
SeqsUpTo(S, n) ==
    IF n = 0 THEN {<<>>}
    ELSE SeqsUpTo(S, n - 1) \cup {Append(q, x) : q \in {r \in SeqsUpTo(S, n - 1) : Len(r) = n - 1}, x \in S}

\* the answers of the OCR model: every field may be missing, a number or a
\* string; itemsIsArray tells whether items is an array
OcrPayloads ==
    {[items |-> IF arr THEN its ELSE <<>>, itemsIsArray |-> arr,
      subtotal |-> sub, tax |-> tx, total |-> tot, tip |-> tp] :
        arr \in BOOLEAN, its \in SeqsUpTo(OcrItems, MaxItems),
        sub \in {Undefined, Num(0), Str(250)},
        tx \in {Undefined, Num(0), Num(13), Str(20)},
        tot \in {Undefined, Num(0), EmptyStr, Num(113), Num(114), Str(115)},
        tp \in {Undefined, Num(1)}}

\* sanitizeOcrResponse on one item: the items it can return
sanitizeItem(item) ==
    LET quantity == IF IsNumeric(item.quantity) /\ item.quantity[2] # 0
                    THEN (IF IsString(item.quantity) THEN Abs(item.quantity[2])
                          ELSE item.quantity[2])
                    ELSE QtyScale
        totalPrice == ParseOr(item.price, 0)
        hasUnit == Truthy(item.unit_price)
        unitPrices == IF hasUnit THEN {ParseOr(item.unit_price, 0)}
                      ELSE IF quantity > 0 THEN ToFixed2(totalPrice * QtyScale, quantity)
                      ELSE {totalPrice}
        finalPrices == IF totalPrice # 0 THEN {totalPrice}
                       ELSE IF hasUnit THEN ToFixed2(ParseOr(item.unit_price, 0) * quantity, QtyScale)
                       ELSE {0}
    IN  {[price |-> Num(p), unit_price |-> Num(u), quantity |-> Num(quantity),
          taxable |-> <<TRUE>>] : p \in finalPrices, u \in unitPrices}

RECURSIVE sanitizeItems(_)
sanitizeItems(items) ==
    IF items = <<>> THEN {<<>>}
    ELSE {<<h>> \o t : h \in sanitizeItem(Head(items)), t \in sanitizeItems(Tail(items))}

\* sanitizeOcrResponse: the receipts it can return
sanitizeOcrResponse(ocr) ==
    LET total == IF IsString(ocr.total) THEN ParseString(ocr.total)
                 ELSE ocr.total
        itemLists == IF ocr.itemsIsArray THEN sanitizeItems(ocr.items) ELSE {<<>>}
        subtotalOf(items) ==
            IF ~Truthy(ocr.subtotal)
            THEN (IF ocr.itemsIsArray
                  THEN Num(SumSeq([i \in 1..Len(items) |-> items[i].price[2]]))
                  ELSE ocr.subtotal)
            ELSE IF IsString(ocr.subtotal) THEN ParseString(ocr.subtotal)
            ELSE ocr.subtotal
        taxesOf(subtotal) ==
            IF ~Truthy(ocr.tax)
            THEN (IF IsNumber(subtotal)
                  THEN (IF subtotal = NaNNum THEN {NaNNum}
                        ELSE {Num(t) : t \in ToFixed2(13 * subtotal[2], 100)})
                  ELSE {Num(0)})
            ELSE IF IsString(ocr.tax) THEN {ParseString(ocr.tax)}
            ELSE {ocr.tax}
        totalOf(subtotal, tax) ==
            IF Truthy(subtotal) /\ Truthy(tax) /\ ~Truthy(total)
            THEN Num(subtotal[2] + tax[2])
            ELSE total
    IN  UNION {{[ocr EXCEPT !.items = items, !.subtotal = subtotalOf(items), !.tax = tax,
                                  !.total = totalOf(subtotalOf(items), tax)] :
                    tax \in taxesOf(subtotalOf(items))} : items \in itemLists}

\* ReceiptResult: the totals it shows for a receipt.  Whether a difference of
\* exactly one cent exceeds 0.01 depends on the doubles compared.
ReceiptResult(receipt) ==
    LET calculatedSubtotal ==
            SumSeq([i \in 1..Len(receipt.items) |-> ParseOr(receipt.items[i].price, 0)])
        calculatedTotal == calculatedSubtotal + ParseOr(receipt.tax, 0) + ParseOr(receipt.tip, 0)
        originalTotal == ParseOr(receipt.total, 0)
        totalDifference == Abs(calculatedTotal - originalTotal)
    IN  {[calculatedTotal |-> calculatedTotal, totalDifference |-> totalDifference,
          mismatchDetected |-> m] :
            m \in IF totalDifference = 1 THEN BOOLEAN ELSE {totalDifference > 1}}

\* sanitizeOcrResponse applied to an answer of the OCR model, whether or not
\* validateOcrResponse would have let it through
Sanitize ==
    /\ component = "ocr"
    /\ component' = "result"
    /\ editedData' \in sanitizeOcrResponse(editedData)
    /\ lastOp' = Op("sanitizeOcrResponse", 0, "", editedData)
    /\ TaxUnchanged

\* the page shows the receipt it received
RenderReceiptResult ==
    /\ component = "result"
    /\ view = <<>>
    /\ view' \in ReceiptResult(editedData)
    /\ lastOp' = Op("ReceiptResult", 0, "", lastOp.before)
    /\ UNCHANGED <<component, editedData, selectedTaxOption, customTaxRate, customTaxAmount,
                   useDirect, selectedTaxRate, enteredRate, appVars>>

InitOcr ==
    /\ component = "ocr"
    /\ editedData \in OcrPayloads
    /\ selectedTaxOption = "13%"
    /\ customTaxRate = Str(13)
    /\ customTaxAmount = Str(0)
    /\ useDirect = FALSE
    /\ selectedTaxRate = -1
    /\ enteredRate = 13000
    /\ view = <<>>
    /\ lastOp = Op("mount", 0, "", NoItem)
    /\ AppIdle

NextOcr == Sanitize \/ RenderReceiptResult

SpecOcr == InitOcr /\ [][NextOcr]_vars

\* ------------------------------------------------------- specifications
\* the editor as mounted on a receipt of k items: initialData, then the effects
Mounted(k) == updateTotals(involvementEffect(initialData(SampleData(k))), Str(13), Str(0), FALSE)

InitTable ==
    /\ component = "table"
    /\ \E k \in 0..MaxItems : editedData \in Mounted(k)
    /\ selectedTaxOption = "13%"
    /\ customTaxRate = Str(13)
    /\ customTaxAmount = Str(0)
    /\ useDirect = FALSE
    /\ selectedTaxRate = -1
    /\ enteredRate = 13000
    /\ view = <<>>
    /\ lastOp = Op("mount", 0, "", NoItem)
    /\ AppIdle

\* involvement: toggles, bulk operations, adding and removing items
NextShare ==
    \/ \E h \in HM : toggleReceiptHousemateInvolvement(h)
    \/ \E i \in 1..MaxItems, h \in HM : toggleItemHousemateInvolvement(i, h)
    \/ \E v \in {0, 1} : toggleAllHousemates(v)
    \/ applyReceiptSharingToAll
    \/ handleAddItem
    \/ \E i \in 1..MaxItems : handleRemoveItem(i)

SpecShare == InitTable /\ [][NextShare]_vars

\* receipt-level involvement only: toggles, adding and removing items
NextFollow ==
    \/ \E h \in HM : toggleReceiptHousemateInvolvement(h)
    \/ \E v \in {0, 1} : toggleAllHousemates(v)
    \/ handleAddItem
    \/ \E i \in 1..MaxItems : handleRemoveItem(i)

SpecFollow == InitTable /\ [][NextFollow]_vars

\* editing the item list, in either component
Init == InitTable \/ InitList

Next ==
    \/ \E i \in EditedRows, v \in QtyInputs : handleItemChange(i, "quantity", v)
    \/ \E i \in EditedRows, v \in UnitPriceInputs : handleItemChange(i, "unit_price", v)
    \/ \E i \in EditedRows, v \in PriceInputs : handleItemChange(i, "price", v)
    \/ handleAddItem
    \/ \E i \in 1..MaxItems : handleRemoveItem(i)
    \/ \E i \in EditedRows, v \in QtyInputs : handleNumericInput(i, "quantity", v)
    \/ \E i \in EditedRows, v \in UnitPriceInputs : handleNumericInput(i, "unit_price", v)
    \/ \E i \in EditedRows, v \in PriceInputs : handleNumericInput(i, "price", v)
    \/ ReceiptList_handleAddItem
    \/ \E i \in 1..MaxItems : ReceiptList_handleRemoveItem(i)
    \/ \E i \in 1..MaxItems : handleItemTaxableToggle(i)

Spec == Init /\ [][Next]_vars

\* the tax configuration, with items added, removed, repriced and flagged
NextTax ==
    \/ \E o \in SelectedOptions : handleTaxOptionChange(o)
    \/ \E v \in CustomRateInputs : handleCustomTaxRateChange(v)
    \/ \E v \in TaxAmountInputs : handleCustomTaxAmountChange(v)
    \/ \E b \in BOOLEAN : handleUseDirect(b)
    \/ \E i \in EditedRows, v \in UnitPriceInputs : handleItemChange(i, "unit_price", v)
    \/ handleAddItem
    \/ \E i \in 1..MaxItems : handleRemoveItem(i)
    \/ \E r \in SelectedTaxRates : handleTaxRateChange(r)
    \/ \E v \in CustomRateInputs : ReceiptList_handleCustomTaxRateChange(v)
    \/ \E v \in TaxAmountInputs : ReceiptList_handleCustomTaxAmountChange(v)
    \/ ReceiptList_handleAddItem
    \/ \E i \in 1..MaxItems : ReceiptList_handleRemoveItem(i)
    \/ \E i \in 1..MaxItems : handleItemTaxableToggle(i)

SpecTax == Init /\ [][NextTax]_vars

\* ------------------------------------------------- Home (pages/index.tsx)
\* a string that is not read as a number
Text(s) == <<"t", s, "">>

\* !v || v.trim() === ""
Blank(v) == v \in {Undefined, EmptyStr, Text(" ")}

\* the items and receipts the OCR endpoint answers with
EndpointItems ==
    {[description |-> Text("Unknown Item"), price |-> Num(p), unit_price |-> Num(p),
      quantity |-> Num(QtyScale), taxable |-> <<TRUE>>, involvedHousemates |-> <<>>] :
        p \in {0, 300}}

EndpointReceipts ==
    {[vendor |-> v, date |-> d, items |-> its, subtotal |-> Undefined, tax |-> Undefined,
      total |-> Undefined, involvedHousemates |-> <<>>] :
        v \in {Undefined, Text("V")}, d \in {Text("2024-01-01")},
        its \in SeqsUpTo(EndpointItems, MaxItems)}

MetadataInputs == {EmptyStr, Text(" "), Text("V")}

DescriptionInputs == {EmptyStr, Text("a")}

\* validateForm without its test on the price
validateFormUnpriced(ed) ==
    (IF Blank(ed.vendor) THEN {<<"vendor">>} ELSE {})
        \cup (IF Blank(ed.date) THEN {<<"date">>} ELSE {})
        \cup (IF Len(ed.items) = 0 THEN {<<"items">>}
              ELSE {<<"item", i, "description">> :
                        i \in {j \in 1..Len(ed.items) : Blank(ed.items[j].description)}})

\* validateForm: the keys of newErrors
validateForm(ed) ==
    (IF Blank(ed.vendor) THEN {<<"vendor">>} ELSE {})
        \cup (IF Blank(ed.date) THEN {<<"date">>} ELSE {})
        \cup (IF Len(ed.items) = 0 THEN {<<"items">>}
              ELSE {<<"item", i, "description">> :
                        i \in {j \in 1..Len(ed.items) : Blank(ed.items[j].description)}}
                   \cup {<<"item", i, "price">> :
                        i \in {j \in 1..Len(ed.items) :
                                 IsNumeric(ed.items[j].price) /\ ed.items[j].price[2] <= 0}}
                   \cup {<<"item", i, "quantity">> :
                        i \in {j \in 1..Len(ed.items) :
                                 /\ Truthy(ed.items[j].quantity)
                                 /\ ed.items[j].quantity[2] <= 0}})

EditorUnchanged ==
    UNCHANGED <<selectedTaxOption, customTaxRate, customTaxAmount, useDirect, selectedTaxRate,
                enteredRate, view>>

\* the upload finished: Home keeps the receipt and mounts the editor on it
handleOcrComplete(receipt) ==
    /\ component = "Home"
    /\ ocrResult = Null
    /\ ocrResult' = receipt
    /\ receiptFile' = Text("file")
    /\ isEditing' = TRUE
    /\ component' = "table"
    /\ editedData' \in updateTotals(involvementEffect(initialData(receipt)), Str(13), Str(0), FALSE)
    /\ errors' = {}
    /\ lastOp' = Op("handleOcrComplete", 0, "", NoItem)
    /\ EditorUnchanged
    /\ UNCHANGED <<uploadingToDrive, savingToSheets, driveFileId, pc, fetches,
                   historyVars, retryVars, cardVars>>

handleMetadataChange(field, value) ==
    /\ component = "table"
    /\ editedData' = [editedData EXCEPT ![field] = value]
    /\ lastOp' = Op("handleMetadataChange", 0, field, NoItem)
    /\ UNCHANGED component
    /\ TaxUnchanged

\* handleSubmit: validateForm, then onSave = handleEditReceipt of Home, which
\* takes the edited receipt and leaves editing
handleSubmit ==
    /\ component = "table"
    /\ isEditing
    /\ errors' = validateForm(editedData)
    /\ IF validateForm(editedData) = {}
       THEN /\ ocrResult' = editedData
            /\ isEditing' = FALSE
            /\ component' = "Home"
            /\ editedData' = Null
            /\ lastOp' = Op("handleSubmit", 0, "onSave", editedData)
       ELSE /\ lastOp' = Op("handleSubmit", 0, "", editedData)
            /\ UNCHANGED <<ocrResult, isEditing, component, editedData>>
    /\ EditorUnchanged
    /\ UNCHANGED <<receiptFile, uploadingToDrive, savingToSheets, driveFileId, pc, fetches,
                   historyVars, retryVars, cardVars>>

\* the Cancel button of the editor: onCancel = handleCancelEdit of Home
handleCancelEdit ==
    /\ component = "table"
    /\ isEditing
    /\ isEditing' = FALSE
    /\ component' = "Home"
    /\ editedData' = Null
    /\ errors' = {}
    /\ lastOp' = Op("handleCancelEdit", 0, "", editedData)
    /\ EditorUnchanged
    /\ UNCHANGED <<ocrResult, receiptFile, uploadingToDrive, savingToSheets, driveFileId, pc,
                   fetches, historyVars, retryVars, cardVars>>

\* what Home renders: the upload control, the editor, a control that runs
\* saveReceipt (index.tsx renders none)
UploadShown == ocrResult = Null

EditorShown == ocrResult # Null /\ isEditing

SaveShown == FALSE

\* a page of the application as it is when it opens
InitApp(page) ==
    /\ component = page
    /\ editedData = Null
    /\ selectedTaxOption = "13%"
    /\ customTaxRate = Str(13)
    /\ customTaxAmount = Str(0)
    /\ useDirect = FALSE
    /\ selectedTaxRate = -1
    /\ enteredRate = 13000
    /\ view = <<>>
    /\ lastOp = Op("mount", 0, "", NoItem)
    /\ AppIdle

NextHome ==
    \/ \E r \in EndpointReceipts : handleOcrComplete(r)
    \/ \E f \in {"vendor", "date"}, v \in MetadataInputs : handleMetadataChange(f, v)
    \/ \E i \in EditedRows, v \in DescriptionInputs : handleItemChange(i, "description", v)
    \/ \E i \in EditedRows, v \in UnitPriceInputs : handleItemChange(i, "unit_price", v)
    \/ handleSubmit
    \/ handleCancelEdit

SpecHome == InitApp("Home") /\ [][NextHome]_vars

\* ---------------------------------------------------------- export rows
\* a cell of an exported row: what the column holds, and the value
Cell(column, value) == <<column, value>>

\* receiptData.vendor || 'Unknown Vendor'
VendorName(receiptData) ==
    IF Blank(receiptData.vendor) /\ receiptData.vendor # Text(" ")
    THEN Text("Unknown Vendor") ELSE receiptData.vendor

\* the cells of one clipboard line: the template of copyReceiptDataToClipboard
clipboardLine(receiptData, second, r) ==
    <<Cell("date", receiptData.date), second, Cell("expenseTypeLabel", 1),
      Cell("price", r.amount), Cell("paidBy", EmptyStr),
      Cell("averagePerPerson", r.perPerson), Cell("averagePerPerson", r.perPerson)>>
        \o [i \in 1..Len(Roster) |->
                Cell(Roster[i], IF Roster[i] \in r.involved THEN Str(1) ELSE EmptyStr)]

\* clipboardContent: one line for the receipt, or one per item with a
\* positive price when the items are shared differently
clipboardContent(receiptData) ==
    IF ~hasMultipleRatios(receiptData)
    THEN <<clipboardLine(receiptData, Cell("vendorName", VendorName(receiptData)),
                         copyReceiptDataToClipboard(receiptData)[1])>>
    ELSE LET kept == SelectSeq(receiptData.items, PositivePrice)
         IN  [i \in 1..Len(kept) |->
                clipboardLine(receiptData,
                              IF kept[i].description # EmptyStr
                              THEN Cell("itemDescription", kept[i].description)
                              ELSE Cell("vendorName", VendorName(receiptData)),
                              ClipboardItemRow(receiptData, kept[i]))]

\* the rows writeReceiptToSheet appends: one per item
sheetRows(data, sharedWith) ==
    LET rows == writeReceiptToSheet(data, sharedWith)
    IN  [i \in 1..Len(rows) |->
            <<Cell("date", data.date),
              Cell("itemDescription",
                   IF data.items[i].description # EmptyStr THEN data.items[i].description
                   ELSE Text("Unknown Item")),
              Cell("expenseTypeCode", 9), Cell("price", rows[i].amount),
              Cell("paidBy", EmptyStr), Cell("vendorName", VendorName(data)),
              Cell("averagePerPerson", rows[i].perPerson)>>
                \o [j \in 1..Len(Roster) |-> Cell(Roster[j], rows[i].shares[Roster[j]])]]

\* the receipt in the editor is exported both ways
ExportRows ==
    /\ component = "table"
    /\ view' = [clipboard |-> clipboardContent(editedData), sheet |-> sheetRows(editedData, <<>>)]
    /\ lastOp' = Op("ExportRows", 0, "", NoItem)
    /\ UNCHANGED <<component, editedData, selectedTaxOption, customTaxRate, customTaxAmount,
                   useDirect, selectedTaxRate, enteredRate, appVars>>

NextExport ==
    \/ \E r \in EndpointReceipts : handleOcrComplete(r)
    \/ \E i \in 1..MaxItems, h \in HM : toggleItemHousemateInvolvement(i, h)
    \/ \E i \in EditedRows, v \in DescriptionInputs : handleItemChange(i, "description", v)
    \/ ExportRows

SpecExport == InitApp("Home") /\ [][NextExport]_vars

\* -------------------------------------------------- money normalization
\* strings are sequences of characters; the characters typed
Chars == {"1", "2", ".", "a"}

DigitChars == <<"0", "1", "2", "3", "4", "5", "6", "7", "8", "9">>

IsDigit(c) == \E d \in 1..10 : DigitChars[d] = c

DigitValue(c) == (CHOOSE d \in 1..10 : DigitChars[d] = c) - 1

IsNumericChar(c) == IsDigit(c) \/ c = "."

InputStrings == SeqsUpTo(Chars, MaxLen)

\* value.replace(/[^0-9.]/g, '')
stripNonNumeric(value) == SelectSeq(value, IsNumericChar)

RECURSIVE DigitPrefix(_)
DigitPrefix(str) ==
    IF str = <<>> \/ ~IsDigit(Head(str)) THEN <<>> ELSE <<Head(str)>> \o DigitPrefix(Tail(str))

RECURSIVE Pow10(_)
Pow10(n) == IF n = 0 THEN 1 ELSE 10 * Pow10(n - 1)

RECURSIVE DigitsValue(_)
DigitsValue(ds) ==
    IF ds = <<>> THEN 0 ELSE 10 * DigitsValue(SubSeq(ds, 1, Len(ds) - 1)) + DigitValue(ds[Len(ds)])

\* parseFloat of a string of digits and points: the longest prefix that is a
\* number, in units of 10^-MaxLen; NaN when there is none
parseFloat(str) ==
    LET int == DigitPrefix(str)
        rest == SubSeq(str, Len(int) + 1, Len(str))
        frac == IF rest # <<>> /\ Head(rest) = "." THEN DigitPrefix(Tail(rest)) ELSE <<>>
    IN  IF int = <<>> /\ frac = <<>> THEN NaNNum
        ELSE Num(DigitsValue(int) * Pow10(MaxLen) + DigitsValue(frac) * Pow10(MaxLen - Len(frac)))

\* parseFloat(...) || 0
OrZero(v) == IF v = NaNNum THEN Num(0) ELSE v

\* formatCurrency of sheetsService.ts on a string: strip, then parseFloat || 0
formatCurrencyString(amount) == OrZero(parseFloat(stripNonNumeric(amount)))

\* parts[0] + '.' + parts.slice(1).join('') when there are several points
collapsePoints(sanitizedValue) ==
    LET first == CHOOSE i \in 1..Len(sanitizedValue) :
                    /\ sanitizedValue[i] = "."
                    /\ \A j \in 1..(i - 1) : sanitizedValue[j] # "."
        IsDigitChar(c) == IsDigit(c)
    IN  IF Len(SelectSeq(sanitizedValue, LAMBDA c : c = ".")) > 1
        THEN SubSeq(sanitizedValue, 1, first)
                \o SelectSeq(SubSeq(sanitizedValue, first + 1, Len(sanitizedValue)), IsDigitChar)
        ELSE sanitizedValue

\* handleNumericInput on a quantity: the value stored in the field
sanitizedValueOf(value) == collapsePoints(stripNonNumeric(value))

\* one of the two normalizations is applied to the string typed
ApplyFormatCurrency ==
    /\ component = "money"
    /\ view = <<>>
    /\ view' = [by |-> "formatCurrency", number |-> formatCurrencyString(editedData)]
    /\ lastOp' = Op("formatCurrency", 0, "", NoItem)
    /\ UNCHANGED <<component, editedData, selectedTaxOption, customTaxRate, customTaxAmount,
                   useDirect, selectedTaxRate, enteredRate, appVars>>

ApplyHandleNumericInput ==
    /\ component = "money"
    /\ view = <<>>
    /\ view' = [by |-> "handleNumericInput", text |-> sanitizedValueOf(editedData),
                number |-> OrZero(parseFloat(sanitizedValueOf(editedData)))]
    /\ lastOp' = Op("handleNumericInput", 0, "quantity", NoItem)
    /\ UNCHANGED <<component, editedData, selectedTaxOption, customTaxRate, customTaxAmount,
                   useDirect, selectedTaxRate, enteredRate, appVars>>

InitMoney ==
    /\ component = "money"
    /\ editedData \in InputStrings
    /\ selectedTaxOption = "13%"
    /\ customTaxRate = Str(13)
    /\ customTaxAmount = Str(0)
    /\ useDirect = FALSE
    /\ selectedTaxRate = -1
    /\ enteredRate = 13000
    /\ view = <<>>
    /\ lastOp = Op("mount", 0, "", NoItem)
    /\ AppIdle

NextMoney == ApplyFormatCurrency \/ ApplyHandleNumericInput

SpecMoney == InitMoney /\ [][NextMoney]_vars

\* --------------------------------------------- Home with the Save button
\* the file ids Drive hands out
FileIds == {Text("f1"), Text("f2")}

\* the receipts uploaded to this page
SavedReceipts == {r \in EndpointReceipts : Len(r.items) = 1 /\ r.vendor # Undefined}

SaveUnchanged ==
    UNCHANGED <<component, editedData, selectedTaxOption, customTaxRate, customTaxAmount,
                useDirect, selectedTaxRate, enteredRate, view, isEditing, errors,
                historyVars, retryVars, cardVars>>

\* the number of times saveReceipt reached the Drive upload
Saves == Len(SelectSeq(fetches, LAMBDA f : f.url = "/api/drive/upload"))

\* handleOcrComplete of the page that shows ReceiptList and the Save button
HomeList_handleOcrComplete(receipt) ==
    /\ component = "HomeList"
    /\ ocrResult = Null
    /\ ocrResult' = receipt
    /\ receiptFile' = Text("file")
    /\ lastOp' = Op("handleOcrComplete", 0, "", NoItem)
    /\ UNCHANGED <<uploadingToDrive, savingToSheets, driveFileId, pc, fetches>>
    /\ SaveUnchanged

\* the Cancel button next to Save
HomeList_Cancel ==
    /\ component = "HomeList"
    /\ ocrResult # Null
    /\ ocrResult' = Null
    /\ receiptFile' = Null
    /\ driveFileId' = Null
    /\ lastOp' = Op("Cancel", 0, "", ocrResult)
    /\ UNCHANGED <<uploadingToDrive, savingToSheets, pc, fetches>>
    /\ SaveUnchanged

\* saveReceipt up to its first await: the checks, then the Drive upload is sent.
\* The button is disabled while a flag is set.
saveReceipt ==
    /\ component = "HomeList"
    /\ ocrResult # Null
    /\ ~(uploadingToDrive \/ savingToSheets)
    /\ pc = "idle"
    /\ Saves < MaxSaves
    /\ receiptFile # Null
    /\ uploadingToDrive' = TRUE
    /\ fetches' = Append(fetches, [url |-> "/api/drive/upload", status |-> "pending",
                                   driveFileId |-> Null, receipt |-> ocrResult])
    /\ pc' = "drive"
    /\ lastOp' = Op("saveReceipt", 0, "", ocrResult)
    /\ UNCHANGED <<ocrResult, receiptFile, savingToSheets, driveFileId>>
    /\ SaveUnchanged

\* the request in flight gets its response
Settled(status, fileId) ==
    [fetches EXCEPT ![Len(fetches)].status = status,
                    ![Len(fetches)].driveFileId = IF fileId = Null THEN @ ELSE fileId]

\* the failure path: catch, then finally
saveFailed(name) ==
    /\ uploadingToDrive' = FALSE
    /\ savingToSheets' = FALSE
    /\ pc' = "idle"
    /\ fetches' = Settled("failed", Null)
    /\ lastOp' = Op(name, 0, "failed", ocrResult)
    /\ UNCHANGED <<ocrResult, receiptFile>>

\* the Drive response that goes on to the Sheets write whatever the outcome
driveResponseUnchecked(ok, fileId) ==
    /\ component = "HomeList"
    /\ pc = "drive"
    /\ driveFileId' = fileId
    /\ savingToSheets' = TRUE
    /\ fetches' = Append(Settled(IF ok THEN "ok" ELSE "failed", fileId),
                         [url |-> "/api/sheets/write", status |-> "pending",
                          driveFileId |-> fileId, receipt |-> fetches[Len(fetches)].receipt])
    /\ pc' = "sheets"
    /\ lastOp' = Op("driveResponse", 0, IF ok THEN "ok" ELSE "failed", ocrResult)
    /\ UNCHANGED <<ocrResult, receiptFile, uploadingToDrive>>
    /\ SaveUnchanged

\* the Drive upload settles: on success the Sheets write is sent with the file
\* id of the response and the receipt saveReceipt was called with
driveResponse(ok, fileId) ==
    /\ component = "HomeList"
    /\ pc = "drive"
    /\ IF ok
       THEN /\ driveFileId' = fileId
            /\ savingToSheets' = TRUE
            /\ fetches' = Append(Settled("ok", fileId),
                                 [url |-> "/api/sheets/write", status |-> "pending",
                                  driveFileId |-> fileId,
                                  receipt |-> fetches[Len(fetches)].receipt])
            /\ pc' = "sheets"
            /\ lastOp' = Op("driveResponse", 0, "ok", ocrResult)
            /\ UNCHANGED <<ocrResult, receiptFile, uploadingToDrive>>
       ELSE /\ saveFailed("driveResponse")
            /\ UNCHANGED driveFileId
    /\ SaveUnchanged

\* the Sheets write settles; finally clears both flags
sheetsResponse(ok) ==
    /\ component = "HomeList"
    /\ pc = "sheets"
    /\ IF ok
       THEN /\ uploadingToDrive' = FALSE
            /\ savingToSheets' = FALSE
            /\ pc' = "idle"
            /\ fetches' = Settled("ok", Null)
            /\ lastOp' = Op("sheetsResponse", 0, "ok", ocrResult)
            /\ UNCHANGED <<ocrResult, receiptFile>>
       ELSE saveFailed("sheetsResponse")
    /\ UNCHANGED driveFileId
    /\ SaveUnchanged

NextSave ==
    \/ \E r \in SavedReceipts : HomeList_handleOcrComplete(r)
    \/ HomeList_Cancel
    \/ saveReceipt
    \/ \E ok \in BOOLEAN, f \in FileIds : driveResponse(ok, f)
    \/ \E ok \in BOOLEAN : sheetsResponse(ok)

SpecSave == InitApp("HomeList") /\ [][NextSave]_vars

\* -------------------------------------------------------- receipt history
MAX_HISTORY_ITEMS == 20

HistoryUnchanged ==
    UNCHANGED <<component, editedData, selectedTaxOption, customTaxRate, customTaxAmount,
                useDirect, selectedTaxRate, enteredRate, view, homeVars, retryVars, cards,
                returned>>

\* addReceiptToHistory, called by another component or tab: the receipt, stamped
\* with the time, goes to the front of the stored list
addReceiptToHistory ==
    /\ component = "History"
    /\ clock < MaxReceipts
    /\ clock' = clock + 1
    /\ storage' = SubSeq(<<[vendor |-> Text("V"), savedAt |-> clock + 1]>> \o storage,
                         1, Min(Len(storage) + 1, MAX_HISTORY_ITEMS))
    /\ lastOp' = Op("addReceiptToHistory", 0, "", NoItem)
    /\ UNCHANGED history
    /\ HistoryUnchanged

\* loadHistory, run by the interval timer, the storage event of another tab,
\* or opening the dropdown
loadHistory ==
    /\ component = "History"
    /\ history # storage
    /\ history' = storage
    /\ lastOp' = Op("loadHistory", 0, "", NoItem)
    /\ UNCHANGED <<storage, clock>>
    /\ HistoryUnchanged

\* removeReceiptFromHistory: the stored list without the entry at index
\* (counted from 0), unchanged when the index is out of range
removeReceiptFromHistory(stored, index) ==
    IF index < 0 \/ index >= Len(stored) THEN stored ELSE Splice(stored, index + 1)

\* the delete button of the row at index: handleRemoveReceipt / handleDelete
handleRemoveReceipt(index) ==
    /\ component = "History"
    /\ index \in 0..(Len(history) - 1)
    /\ storage' = removeReceiptFromHistory(storage, index)
    /\ history' = removeReceiptFromHistory(storage, index)
    /\ lastOp' = Op("handleRemoveReceipt", index, "", [shown |-> history[index + 1],
                                                         stored |-> storage])
    /\ UNCHANGED clock
    /\ HistoryUnchanged

NextHistory ==
    \/ addReceiptToHistory
    \/ loadHistory
    \/ \E i \in 0..(MaxReceipts - 1) : handleRemoveReceipt(i)

SpecHistory == InitApp("History") /\ [][NextHistory]_vars

\* --------------------------------------------------- processReceiptImage
\* retries = 3, the default of the parameter
DefaultRetries == 3

\* how one attempt can end: fetch rejects, the response is not ok, its body
\* is not JSON, it holds no candidate text (all four throw inside the try);
\* the text holds no JSON, JSON that does not parse, or a parsed object,
\* which has the fields of a receipt or not
Thrown == {"rejected", "notOk", "bodyNotJson", "noCandidates"}

Returned == {"noJsonInText", "jsonParsingError", "receipt", "otherObject"}

RetryUnchanged ==
    UNCHANGED <<component, editedData, selectedTaxOption, customTaxRate, customTaxAmount,
                useDirect, selectedTaxRate, enteredRate, ocrResult, receiptFile, isEditing,
                uploadingToDrive, savingToSheets, driveFileId, errors, fetches,
                historyVars, cardVars>>

\* the call: the first request is sent
processReceiptImage(r) ==
    /\ component = "api/ocr"
    /\ pc = "idle"
    /\ retries' = r
    /\ requests' = 1
    /\ pc' = "fetch"
    /\ lastOp' = Op("processReceiptImage", r, "", NoItem)
    /\ UNCHANGED <<result, view>>
    /\ RetryUnchanged

\* an attempt that retries whenever it did not produce a receipt
attemptEndsRetryingAll(outcome) ==
    /\ component = "api/ocr"
    /\ pc = "fetch"
    /\ IF outcome # "receipt" /\ retries > 0
       THEN /\ retries' = retries - 1
            /\ requests' = requests + 1
            /\ UNCHANGED <<pc, result>>
       ELSE /\ result' = [error |-> outcome # "receipt", receipt |-> outcome = "receipt"]
            /\ pc' = "returned"
            /\ UNCHANGED <<retries, requests>>
    /\ lastOp' = Op("attemptEnds", lastOp.index, outcome, NoItem)
    /\ UNCHANGED view
    /\ RetryUnchanged

\* an attempt ends: what was thrown is caught and, with retries left, the
\* call is made again with retries - 1 after two seconds; everything else
\* is returned
attemptEnds(outcome) ==
    /\ component = "api/ocr"
    /\ pc = "fetch"
    /\ IF outcome \in Thrown /\ retries > 0
       THEN /\ retries' = retries - 1
            /\ requests' = requests + 1
            /\ UNCHANGED <<pc, result>>
       ELSE /\ result' = [error |-> outcome \notin {"receipt", "otherObject"},
                          receipt |-> outcome = "receipt"]
            /\ pc' = "returned"
            /\ UNCHANGED <<retries, requests>>
    /\ lastOp' = Op("attemptEnds", lastOp.index, outcome, NoItem)
    /\ UNCHANGED view
    /\ RetryUnchanged

\* validateOcrResponse: no error field, and the fields of a receipt
validateOcrResponse(ocr) == ~ocr.error /\ ocr.receipt

\* the handler of /api/ocr answers
handler ==
    /\ component = "api/ocr"
    /\ pc = "returned"
    /\ pc' = "responded"
    /\ view' = [status |-> IF validateOcrResponse(result) THEN 200 ELSE 500]
    /\ lastOp' = Op("handler", lastOp.index, lastOp.field, NoItem)
    /\ UNCHANGED <<retries, requests, result>>
    /\ RetryUnchanged

NextRetry ==
    \/ \E r \in 0..DefaultRetries : processReceiptImage(r)
    \/ \E o \in Thrown \cup Returned : attemptEnds(o)
    \/ handler

\* every request sent settles
SpecRetry == InitApp("api/ocr") /\ [][NextRetry]_vars /\ WF_vars(NextRetry)

\* ------------------------------------------------------ creditCardService
CardsUnchanged ==
    UNCHANGED <<component, editedData, selectedTaxOption, customTaxRate, customTaxAmount,
                useDirect, selectedTaxRate, enteredRate, view, homeVars, historyVars,
                retryVars>>

\* time passes: Date.now() reads a later millisecond
Tick ==
    /\ component = "Settings"
    /\ clock < MaxClock
    /\ clock' = clock + 1
    /\ lastOp' = Op("Tick", 0, "", cards)
    /\ UNCHANGED <<cards, returned>>
    /\ CardsUnchanged

HasId(list, cardId) == \E i \in 1..Len(list) : list[i].id = cardId

\* saveCreditCard of a card without isDefault: the id is the time of the
\* call, and the first card of an empty list becomes the default
saveCreditCard ==
    /\ component = "Settings"
    /\ Len(cards) < MaxCards
    /\ LET newCard == [id |-> clock, isDefault |-> IF Len(cards) = 0 THEN <<TRUE>> ELSE <<>>]
       IN  /\ cards' = Append(cards, newCard)
           /\ returned' = <<newCard>>
    /\ lastOp' = Op("saveCreditCard", clock, "", cards)
    /\ UNCHANGED clock
    /\ CardsUnchanged

\* the list deleteCreditCard stores: every card with the id is filtered out,
\* and the first card left becomes the default when the card found was it
deletedCards(list, cardId) ==
    LET cardToDelete == list[CHOOSE i \in 1..Len(list) :
                                /\ list[i].id = cardId
                                /\ \A j \in 1..(i - 1) : list[j].id # cardId]
        updatedCards == SelectSeq(list, LAMBDA card : card.id # cardId)
    IN  IF cardToDelete.isDefault = <<TRUE>> /\ Len(updatedCards) > 0
        THEN [updatedCards EXCEPT ![1].isDefault = <<TRUE>>]
        ELSE updatedCards

deleteCreditCard(cardId) ==
    /\ component = "Settings"
    /\ IF HasId(cards, cardId)
       THEN cards' = deletedCards(cards, cardId) /\ returned' = <<TRUE>>
       ELSE cards' = cards /\ returned' = <<FALSE>>
    /\ lastOp' = Op("deleteCreditCard", cardId, "", cards)
    /\ UNCHANGED clock
    /\ CardsUnchanged

\* setDefaultCreditCard: isDefault becomes card.id === cardId on every card
setDefaultCreditCard(cardId) ==
    /\ component = "Settings"
    /\ IF HasId(cards, cardId)
       THEN /\ cards' = [i \in 1..Len(cards) |->
                            [cards[i] EXCEPT !.isDefault = <<cards[i].id = cardId>>]]
            /\ returned' = <<TRUE>>
       ELSE cards' = cards /\ returned' = <<FALSE>>
    /\ lastOp' = Op("setDefaultCreditCard", cardId, "", cards)
    /\ UNCHANGED clock
    /\ CardsUnchanged

NextCards ==
    \/ Tick
    \/ saveCreditCard
    \/ \E id \in 0..MaxClock : deleteCreditCard(id)
    \/ \E id \in 0..MaxClock : setDefaultCreditCard(id)

SpecCards == InitApp("Settings") /\ [][NextCards]_vars

\* ------------------------------------------------------------- claims
\* a fraction <<n, d>>, or the one-element error marker
IsError(x) == Len(x) = 1

\* a denominator every head count divides
CommonDen == LET F[n \in 0..Len(Roster)] == IF n = 0 THEN 1 ELSE n * F[n - 1] IN F[Len(Roster)]

\* the sum of the shares, as a numerator over CommonDen
ShareSum(shares) ==
    SumSeq([i \in 1..Len(Roster) |-> shares[Roster[i]][1] * (CommonDen \div shares[Roster[i]][2])])

\* items plus participants: the most generous count of apportioned units
ApportionedUnits(ed) == Len(ed.items) + Len(Roster)

\* C1: the shares of calculateHousemateTotals sum to the total within
\* 0.01 x (number of apportioned units), in every involvement configuration.
C1_SharesSumToTotal ==
    Abs(ShareSum(calculateHousemateTotals(editedData)) - ParseOr(editedData.total, 0) * CommonDen)
        <= ApportionedUnits(editedData) * CommonDen

\* C2: with zero participants involved the apportionment returns an explicit
\* error result: no substituted divisor, no silently zero shares.
C2_ZeroInvolvedIsError ==
    ReceiptInvolved(editedData) = {} =>
        \E h \in HM : IsError(calculateHousemateTotals(editedData)[h])

\* what h owes by the per-item rule, before tax, as a numerator over CommonDen:
\* each item's price split among the participants its effective map marks 1
OwedByItems(ed, h) ==
    SumSeq([i \in 1..Len(ed.items) |->
        LET inv == InvolvedIn(ExportMap(ed, ed.items[i]))
        IN  IF h \in inv THEN ParseOr(ed.items[i].price, 0) * (CommonDen \div Cardinality(inv)) ELSE 0])

\* C3: each item is split among the participants of its own map (else of the
\* receipt-level map) and a participant owes the sum of their per-item parts,
\* taken before tax or with the tax spread in proportion to the prices.
C3_ItemMapDecidesSplit ==
    \A h \in HM :
        LET share == calculateHousemateTotals(editedData)[h]
            num == share[1] * (CommonDen \div share[2])
        IN  \/ num = OwedByItems(editedData, h)
            \/ num * ParseOr(editedData.subtotal, 0) = OwedByItems(editedData, h) * ParseOr(editedData.total, 0)

\* C4: after receipt-level toggles, item additions and item removals only,
\* every item is split among exactly the participants involved at receipt level.
C4_UnconfiguredItemFollowsReceipt ==
    \A i \in 1..Len(editedData.items) :
        InvolvedIn(ExportMap(editedData, editedData.items[i])) = ReceiptInvolved(editedData)

\* C5: every participant with receipt-level involvement 1 is assigned
\* total / (number of involved participants), every other participant 0.
C5_ReceiptLevelShare ==
    \A h \in HM :
        LET share == calculateHousemateTotals(editedData)[h]
        IN  IF h \in ReceiptInvolved(editedData)
            THEN share[1] * Cardinality(ReceiptInvolved(editedData)) = ParseOr(editedData.total, 0) * share[2]
            ELSE share[1] = 0

\* C5 witness: no item map differs from the receipt-level map, the total is
\* positive, one participant is involved and another is not
C5_Witness ==
    /\ C4_UnconfiguredItemFollowsReceipt
    /\ Len(editedData.items) > 0
    /\ ParseOr(editedData.total, 0) > 0
    /\ ReceiptInvolved(editedData) # {}
    /\ ReceiptInvolved(editedData) # HM

\* C6: in item-level rows the per-person amount carries the item's share of
\* the tax, tax x price / subtotal (within a cent on the item amount).
C6_ItemRowsCarryTax ==
    hasMultipleRatios(editedData) =>
        \A i \in 1..Len(copyReceiptDataToClipboard(editedData)) :
            LET row == copyReceiptDataToClipboard(editedData)[i]
                sub == ParseOr(editedData.subtotal, 0)
                tax == ParseOr(editedData.tax, 0)
            IN  ~IsError(row.perPerson) =>
                    Abs(row.perPerson[1] * sub - row.amount * (sub + tax)) <= sub

\* ----------------------------------------------------- claims on editing
EditOps == {"handleItemChange", "handleNumericInput"}

\* the item the last edit was made on, as it is now
EditedItem == editedData.items[lastOp.index]

\* a stored value read as money or as a count, 0 when it does not parse
Money(v) == IF IsNumeric(v) THEN v[2] ELSE 0

\* C7: after every edit of the item list the stored subtotal is the sum of the
\* prices of the items as they are after the edit, and the stored total is the
\* stored subtotal plus the stored tax
C7_TotalsDerivedFromItems ==
    lastOp.op # "mount" =>
        /\ IsNumeric(editedData.subtotal)
        /\ IsNumeric(editedData.tax)
        /\ IsNumeric(editedData.total)
        /\ editedData.subtotal[2] = SumSeq(ItemPrices(editedData.items))
        /\ editedData.total[2] = editedData.subtotal[2] + editedData.tax[2]

\* C8, as stated: after an edit of quantity, unit price or price the item has
\* |price - unitPrice x quantity| <= 0.01, the quantity being the stored one
C8_PriceIsUnitTimesQuantity ==
    lastOp.op \in EditOps =>
        LET storedQty == IF IsNumeric(EditedItem.quantity) THEN EditedItem.quantity[2]
                         ELSE QtyScale
        IN  Abs(QtyScale * Money(EditedItem.price) - Money(EditedItem.unit_price) * storedQty)
                <= QtyScale

\* C8, amended: after such an edit an item with a non-zero unit price has
\* |price - unitPrice x q| <= 0.005 x max(1, |q|), where q is the stored
\* quantity read as 1 when it is missing, empty or zero
C8_PriceIsUnitTimesQuantityRounded ==
    lastOp.op \in EditOps =>
        LET q == QtyOf(EditedItem.quantity)
            u == Money(EditedItem.unit_price)
        IN  u # 0 => 2 * Abs(QtyScale * Money(EditedItem.price) - u * q)
                        <= (IF Abs(q) < QtyScale THEN QtyScale ELSE Abs(q))

\* C8: a price was typed that is no multiple of the quantity, and the unit
\* price derived from it is off the exact quotient
C8_Witness ==
    /\ lastOp.op \in EditOps
    /\ lastOp.field = "price"
    /\ QtyOf(EditedItem.quantity) = 7 * QtyScale
    /\ Money(EditedItem.unit_price) # 0
    /\ Money(EditedItem.price) # Money(EditedItem.unit_price) * 7

\* C9: a quantity edit sets price = existing unit price x new quantity; when
\* the item has no unit price, the unit price is back-computed from the
\* existing price and the new quantity
C9_QuantityEditDerives ==
    (lastOp.op \in EditOps /\ lastOp.field = "quantity") =>
        LET q == QtyOf(EditedItem.quantity)
        IN  IF IsNumeric(lastOp.before.unit_price)
            THEN /\ IsNumeric(EditedItem.price)
                 /\ EditedItem.price[2] \in ToFixed2(lastOp.before.unit_price[2] * q, QtyScale)
            ELSE /\ IsNumeric(EditedItem.unit_price)
                 /\ EditedItem.unit_price[2] \in
                        ToFixed2(Money(lastOp.before.price) * QtyScale, q)
                 /\ EditedItem.price = lastOp.before.price

\* C10: a price edit sets unitPrice = price / quantity, rounded to 2 decimals,
\* when the item had a unit price, and leaves the unit price as it was when
\* the item had none
C10_PriceEditDerives ==
    (lastOp.op \in EditOps /\ lastOp.field = "price") =>
        IF IsNumeric(lastOp.before.unit_price)
        THEN /\ IsNumeric(EditedItem.unit_price)
             /\ EditedItem.unit_price[2] \in
                    ToFixed2(Money(EditedItem.price) * QtyScale, QtyOf(EditedItem.quantity))
        ELSE EditedItem.unit_price = lastOp.before.unit_price

\* the quantity a reconcile step is to use: 1 when the stored quantity is
\* missing, zero or negative
QtyOrOne(v) == IF IsNumeric(v) /\ v[2] > 0 THEN v[2] ELSE QtyScale

\* C11: a unit price edit sets price = unitPrice x quantity, a missing, zero or
\* negative quantity being treated as 1; no reconcile step multiplies or
\* divides by a zero or negative quantity
C11_ReconcileUsesPositiveQuantity ==
    lastOp.op \in EditOps =>
        LET q == QtyOrOne(EditedItem.quantity)
        IN  /\ lastOp.field = "unit_price" =>
                /\ IsNumeric(EditedItem.price)
                /\ EditedItem.price[2] \in ToFixed2(Money(EditedItem.unit_price) * q, QtyScale)
            /\ (lastOp.field = "quantity" /\ Truthy(lastOp.before.unit_price)) =>
                Money(EditedItem.price) \in ToFixed2(Money(lastOp.before.unit_price) * q, QtyScale)
            /\ (lastOp.field = "price" /\ EditedItem.unit_price # lastOp.before.unit_price) =>
                Money(EditedItem.unit_price) \in ToFixed2(Money(EditedItem.price) * QtyScale, q)

\* ------------------------------------------- claims on the reconcile step
\* the reconcile step of the component that holds the receipt
ReconcileItems(items, index, field, value) ==
    IF component = "table"
    THEN handleItemChangeItems(items, index, field, value)
    ELSE handleNumericInputItems(items, index, field, sanitizeNumeric(value))

FieldInputs(field) ==
    IF field = "quantity" THEN QtyInputs
    ELSE IF field = "unit_price" THEN UnitPriceInputs ELSE PriceInputs

ItemRows == 1..Len(editedData.items)

\* C12: reconciling is idempotent: the step for a field applied to its own
\* result computes what the first application computed (where the rounding of
\* a half cent has two outcomes, the same two)
C12_ReconcileIdempotent ==
    \A i \in ItemRows, f \in {"quantity", "unit_price", "price"} :
        \A v \in FieldInputs(f) :
            \A once \in ReconcileItems(editedData.items, i, f, v) :
                ReconcileItems(once, i, f, v) = ReconcileItems(editedData.items, i, f, v)

\* C12: an edit that derived a new value was made, and making it again gives
\* the item list as it is
C12_Witness ==
    /\ lastOp.op \in EditOps
    /\ EditedItem # [lastOp.before EXCEPT ![lastOp.field] = EditedItem[lastOp.field]]
    /\ editedData.items \in
            ReconcileItems(editedData.items, lastOp.index, lastOp.field, EditedItem[lastOp.field])

\* quantities a round trip is tried with, in 1/QtyScale
RoundTripQtys == {Str(k) : k \in 1..(8 * QtyScale)}

\* a quantity edit followed by re-entering the price it derived: the unit
\* prices that can result
RoundTrip(i, v) ==
    UNION {{Money(z[i].unit_price) : z \in ReconcileItems(y, i, "price", y[i].price)} :
            y \in ReconcileItems(editedData.items, i, "quantity", v)}

\* C13, as stated: for any unit price and positive quantity, reconciling on
\* quantity and then on the resulting price returns the original unit price
C13_NoDriftOverOneCycle ==
    \A i \in ItemRows, v \in RoundTripQtys :
        IsNumeric(editedData.items[i].unit_price) =>
            RoundTrip(i, v) = {Money(editedData.items[i].unit_price)}

\* C13, amended: the same for quantities of at least 1
C13_NoDriftFromQuantityOne ==
    \A i \in ItemRows, v \in RoundTripQtys :
        (IsNumeric(editedData.items[i].unit_price) /\ v[2] >= QtyScale) =>
            RoundTrip(i, v) = {Money(editedData.items[i].unit_price)}

\* C13: a round trip whose intermediate price had to be rounded brings the
\* unit price back
C13_Witness ==
    \E i \in ItemRows, v \in RoundTripQtys :
        /\ v[2] >= QtyScale
        /\ Money(editedData.items[i].unit_price) # 0
        /\ \E y \in ReconcileItems(editedData.items, i, "quantity", v) :
            /\ QtyScale * Money(y[i].price) # Money(editedData.items[i].unit_price) * v[2]
            /\ \E z \in ReconcileItems(y, i, "price", y[i].price) :
                Money(z[i].unit_price) = Money(editedData.items[i].unit_price)

\* ------------------------------------------------------ claims on the tax
\* the mode the tax is computed in
DirectMode == IF component = "table" THEN useDirect ELSE selectedTaxRate = -2

\* the rate in force, in 1/RateScale
CurrentRate ==
    IF component = "table" THEN ParseOr(customTaxRate, 0) * PercentUnit
    ELSE ListTaxRate(selectedTaxRate, customTaxRate[2])

\* the sum of the prices of the items whose taxable flag is not false
TaxableSum(items) ==
    SumSeq([i \in 1..Len(items) |->
                IF items[i].taxable # <<FALSE>> THEN ParseOr(items[i].price, 0) ELSE 0])

\* C14: in rate mode the computed tax is rate x the sum of the prices of the
\* items whose taxable flag is not false
C14_TaxOnTaxableItemsOnly ==
    (~DirectMode /\ (component = "table" \/ lastOp.op # "mount")) =>
        /\ IsNumeric(editedData.tax)
        /\ editedData.tax[2] \in ToFixed2(CurrentRate * TaxableSum(editedData.items), RateScale)

\* C15: in direct-amount mode the receipt's tax is the entered amount, whatever
\* is done to the items
C15_DirectTaxIsEnteredAmount ==
    DirectMode => Money(editedData.tax) = ParseOr(customTaxAmount, 0)

\* the receipt of one item priced 100.00
HundredDollars ==
    [SampleData(1) EXCEPT !.items[1].price = Str(10000)]

\* C16: a percentage is divided by 100 exactly once: the tax applied is the
\* percentage last entered / 100 x the tax base (the subtotal in the table, the
\* taxable subtotal in the list), and 100.00 at rate 13 gives exactly 13.00
C16_RateDividedOnce ==
    /\ (component = "table" /\ ~useDirect) =>
        /\ IsNumeric(editedData.tax)
        /\ editedData.tax[2] \in
                ToFixed2(enteredRate * SumSeq(ItemPrices(editedData.items)), RateScale)
    /\ (component = "list"
            /\ \/ lastOp.op = "handleCustomTaxRateChange"
               \/ lastOp.op = "handleTaxRateChange" /\ selectedTaxRate >= 0) =>
        /\ IsNumeric(editedData.tax)
        /\ editedData.tax[2] \in
                ToFixed2(enteredRate * TaxableSum(editedData.items), RateScale)
    /\ \A r \in updateTotals(HundredDollars, Str(13), Str(0), FALSE) : r.tax = Str(1300)

\* C16: a rate was typed after a preset had been chosen, items were edited
\* since, and the tax is not zero
C16_Witness ==
    /\ component = "table"
    /\ ~useDirect
    /\ selectedTaxOption = "custom"
    /\ enteredRate = 7 * PercentUnit
    /\ lastOp.op = "handleItemChange"
    /\ Money(editedData.tax) # 0

\* ------------------------------------- claims on verifying and sanitizing
\* the total computed from the parts of the receipt in hand
ComputedTotal ==
    SumSeq([i \in 1..Len(editedData.items) |-> ParseOr(editedData.items[i].price, 0)])
        + ParseOr(editedData.tax, 0) + ParseOr(editedData.tip, 0)

\* C17: a mismatch is flagged exactly when |computed total - reported total|
\* > 0.01, a difference of exactly 0.01 being no mismatch, and the delta
\* reported is computed total - reported total
C17_MismatchBeyondOneCent ==
    (component = "result" /\ view # <<>> /\ IsNumeric(editedData.total)) =>
        /\ view.calculatedTotal = ComputedTotal
        /\ view.mismatchDetected = (Abs(ComputedTotal - editedData.total[2]) > 1)
        /\ view.totalDifference = ComputedTotal - editedData.total[2]

\* the payload that was sanitized
Payload == lastOp.before

Sanitized == component = "result" /\ lastOp.op \in {"sanitizeOcrResponse", "ReceiptResult"}

EmptyPayload ==
    [items |-> <<>>, itemsIsArray |-> FALSE, subtotal |-> Undefined, tax |-> Undefined,
     total |-> Undefined, tip |-> Undefined]

\* C18: the empty payload is sanitized to a complete receipt with items = [],
\* subtotal = 0, tax = 0 and total = 0
C18_EmptyPayloadZeroed ==
    (Sanitized /\ Payload = EmptyPayload) =>
        /\ editedData.itemsIsArray
        /\ editedData.items = <<>>
        /\ editedData.subtotal = Num(0)
        /\ editedData.tax = Num(0)
        /\ editedData.total = Num(0)

\* C19: the tax is 13% of the subtotal, rounded to cents, when the payload
\* carries no tax, and the supplied tax as a number otherwise
C19_TaxDefaultsToThirteenPercent ==
    Sanitized =>
        IF Payload.tax = Undefined
        THEN /\ IsNumeric(editedData.tax)
             /\ editedData.tax[2] \in ToFixed2(13 * Money(editedData.subtotal), 100)
        ELSE editedData.tax = Num(Payload.tax[2])

\* C20: when the payload's total is absent or zero, the total returned is the
\* subtotal returned plus the tax returned
C20_TotalIsSubtotalPlusTax ==
    (Sanitized /\ (Payload.total = Undefined \/ Payload.total = Num(0))) =>
        /\ IsNumeric(editedData.total)
        /\ editedData.total[2] = Money(editedData.subtotal) + Money(editedData.tax)

\* C21: every item returned has the supplied quantity, or 1 when that is
\* absent or not positive; the explicit unit price, or price / quantity to the
\* cent; the explicit price, or unit price x quantity to the cent; and
\* taxable = true
C21_ItemFieldsResolved ==
    (Sanitized /\ Payload.itemsIsArray) =>
        \A i \in 1..Len(Payload.items) :
            LET raw == Payload.items[i]
                out == editedData.items[i]
                q == IF IsNumeric(raw.quantity) /\ raw.quantity[2] > 0
                     THEN raw.quantity[2] ELSE QtyScale
            IN  /\ out.quantity = Num(q)
                /\ out.taxable = <<TRUE>>
                /\ IF Truthy(raw.unit_price)
                   THEN out.unit_price = Num(ParseOr(raw.unit_price, 0))
                   ELSE out.unit_price[2] \in ToFixed2(ParseOr(raw.price, 0) * QtyScale, q)
                /\ IF ParseOr(raw.price, 0) # 0
                   THEN out.price = Num(ParseOr(raw.price, 0))
                   ELSE out.price[2] \in ToFixed2(out.unit_price[2] * q, QtyScale)

\* ------------------------------------------------ claims on the home page
\* the receipt handleSubmit was run on
Submitted == lastOp.before

\* the price of an item is greater than 0
PricePositive(item) == IsNumeric(item.price) /\ item.price[2] > 0

\* C22: handleSubmit marks every failing field at once - vendor, date, the
\* item list, each empty description and each price that is not greater than
\* 0 - and calls the save callback exactly when it marked none
C22_SaveOnlyWhenValid ==
    lastOp.op = "handleSubmit" =>
        /\ (lastOp.field = "onSave") = (errors = {})
        /\ (<<"vendor">> \in errors) = Blank(Submitted.vendor)
        /\ (<<"date">> \in errors) = Blank(Submitted.date)
        /\ (<<"items">> \in errors) = (Len(Submitted.items) = 0)
        /\ \A i \in 1..Len(Submitted.items) :
              /\ (<<"item", i, "description">> \in errors) = Blank(Submitted.items[i].description)
              /\ (<<"item", i, "price">> \in errors) = ~PricePositive(Submitted.items[i])

\* C22 witness: a receipt with several failing fields was submitted and kept,
\* and a valid one was saved
C22_Witness ==
    /\ lastOp.op = "handleSubmit"
    /\ lastOp.field = ""
    /\ <<"vendor">> \in errors
    /\ \E i \in 1..Len(Submitted.items) :
          <<"item", i, "price">> \in errors /\ <<"item", i, "description">> \in errors

\* C23: after the editor is cancelled the page holds no receipt
C23_CancelDiscardsReceipt ==
    lastOp.op = "handleCancelEdit" => ocrResult = Null

\* C26: whenever the home page holds a receipt, the editor, the upload control
\* or the save action is available
C26_NextStepAvailable ==
    ocrResult # Null => (EditorShown \/ UploadShown \/ SaveShown)

\* ------------------------------------------------- claims on the export
\* the columns of a row, in order
Columns(row) == [i \in 1..Len(row) |-> row[i][1]]

SheetColumns ==
    <<"date", "itemDescription", "expenseTypeCode", "price", "paidBy", "vendorName",
      "averagePerPerson">> \o Roster

\* C24: every clipboard row and every spreadsheet row built for a receipt has
\* the columns date, item description, expense type code, price, paid-by,
\* vendor name, average per person and then one per participant in roster
\* order
C24_ClipboardMatchesSheetColumns ==
    lastOp.op = "ExportRows" =>
        /\ \A i \in 1..Len(view.sheet) : Columns(view.sheet[i]) = SheetColumns
        /\ \A i \in 1..Len(view.clipboard) : Columns(view.clipboard[i]) = SheetColumns

\* -------------------------------------------- claims on normalizing money
\* the claimed normal form of a string: only digits and points, the first
\* point kept, the digits after any further point appended
RECURSIVE NormalForm(_, _)
NormalForm(str, seenPoint) ==
    IF str = <<>> THEN <<>>
    ELSE IF IsDigit(Head(str)) THEN <<Head(str)>> \o NormalForm(Tail(str), seenPoint)
    ELSE IF Head(str) = "." /\ ~seenPoint THEN <<".">> \o NormalForm(Tail(str), TRUE)
    ELSE NormalForm(Tail(str), seenPoint)

\* C25: every normalization of a string yields the number its normal form
\* reads as, and 0 when the normal form is empty or reads as no number
C25_NormalizationUniform ==
    view # <<>> => view.number = OrZero(parseFloat(NormalForm(editedData, FALSE)))

\* ---------------------------------------------------- claims on saving
\* C27: every Sheets write follows a Drive upload that succeeded and carries
\* the file id of that upload; a failed call leaves the held receipt as it
\* was; and when saveReceipt is not running both in-progress flags are false
C27_SheetsAfterDrive ==
    /\ \A k \in 1..Len(fetches) :
          fetches[k].url = "/api/sheets/write" =>
              /\ k > 1
              /\ fetches[k - 1].url = "/api/drive/upload"
              /\ fetches[k - 1].status = "ok"
              /\ fetches[k].driveFileId = fetches[k - 1].driveFileId
    /\ (lastOp.field = "failed") => ocrResult = lastOp.before
    /\ pc = "idle" => (~uploadingToDrive /\ ~savingToSheets)

\* C27 witness: a Sheets write failed after a Drive upload that succeeded
C27_Witness ==
    /\ lastOp.op = "sheetsResponse"
    /\ lastOp.field = "failed"
    /\ ocrResult # Null
    /\ Len(fetches) >= 2

\* ------------------------------------------------- claims on the history
\* the stored list without one receipt
Without(stored, receipt) == SelectSeq(stored, LAMBDA r : r # receipt)

\* C28: deleting a row removes from the stored history exactly the receipt
\* the row showed
C28_DeleteRemovesShownReceipt ==
    lastOp.op = "handleRemoveReceipt" =>
        storage = Without(lastOp.before.stored, lastOp.before.shown)

\* ------------------------------------------------------ claims on the OCR call
\* the retries the call was made with
CalledWith == lastOp.index

\* a request was sent again after the attempt that ended last
Retried == lastOp.op = "attemptEnds" /\ pc = "fetch"

\* the call returned because no retry was left
Exhausted == lastOp.op = "attemptEnds" /\ pc = "returned" /\ lastOp.field \in Thrown

RetryBounds ==
    /\ requests <= CalledWith + 1
    /\ Exhausted => (result.error /\ requests = CalledWith + 1)

Defaults == {i \in 1..Len(cards) : cards[i].isDefault = <<TRUE>>}

\* C30: a non-empty stored list has exactly one default card; deleting or
\* making default an id that is not stored returns false and leaves the list
\* as it was
C30_ExactlyOneDefault ==
    /\ cards # <<>> => Cardinality(Defaults) = 1
    /\ (lastOp.op \in {"deleteCreditCard", "setDefaultCreditCard"}
            /\ ~HasId(lastOp.before, lastOp.index)) =>
                (returned = <<FALSE>> /\ cards = lastOp.before)

====
